---------------------------- MODULE Spec2Model ----------------------------
(***************************************************************************)
(* A model of mockable_doctests/mockable.py: the object cloner             *)
(* (copy_value and the copy_* functions it dispatches to), the path        *)
(* resolver (copy_name) and the mock applier                               *)
(* (MockableDocTestParser.flatten_mocks / apply_mocks / get_doctest).      *)
(*                                                                         *)
(* Python objects live in a heap (a sequence of records, an object's       *)
(* identity is its index), dictionaries in a second heap.  Python strings  *)
(* are sequences of one-character strings so that split("."), endswith     *)
(* and sorted() are computed, not assumed.                                 *)
(***************************************************************************)
EXTENDS Integers, Sequences, FiniteSets, TLC

(***************************************************************************)
(* Bounds of the model.                                                    *)
(***************************************************************************)
\* Depth of nested copy_value calls after which the interpreter gives up
\* with "RuntimeError: maximum recursion depth exceeded".
MaxDepth == 4
\* Depth to which two object graphs are compared for behavioural equality.
ObsDepth == 4

(***************************************************************************)
(* Strings.                                                                *)
(***************************************************************************)
\* The characters used, in ASCII order ('.' < upper case < lower case).
Alphabet == <<".", "C", "F", "H", "K", "P", "Q", "S", "X", "Z", "a", "b", "c", "f",
              "g", "i", "m", "p", "q", "s", "x", "y", "z">>

Ord(c) == CHOOSE i \in DOMAIN Alphabet : Alphabet[i] = c

\* s < t as Python compares two str values
RECURSIVE StrLess(_, _)
StrLess(s, t) ==
    IF t = <<>> THEN FALSE
    ELSE IF s = <<>> THEN TRUE
    ELSE IF Head(s) = Head(t) THEN StrLess(Tail(s), Tail(t))
    ELSE Ord(Head(s)) < Ord(Head(t))

\* sorted(S) for a set S of strings
RECURSIVE Sorted(_)
Sorted(S) ==
    IF S = {} THEN <<>>
    ELSE LET least == CHOOSE s \in S : \A t \in S \ {s} : StrLess(s, t)
         IN  <<least>> \o Sorted(S \ {least})

\* s.split(".")
RECURSIVE SplitFrom(_, _)
SplitFrom(s, acc) ==
    IF s = <<>> THEN <<acc>>
    ELSE IF Head(s) = "." THEN <<acc>> \o SplitFrom(Tail(s), <<>>)
    ELSE SplitFrom(Tail(s), Append(acc, Head(s)))

Split(s) == SplitFrom(s, <<>>)

\* ".".join(parts[:i])
RECURSIVE JoinPrefix(_, _)
JoinPrefix(parts, i) ==
    IF i = 0 THEN <<>>
    ELSE IF i = 1 THEN parts[1]
    ELSE JoinPrefix(parts, i - 1) \o <<".">> \o parts[i]

\* s.endswith(t)
EndsWith(s, t) ==
    /\ Len(t) <= Len(s)
    /\ SubSeq(s, Len(s) - Len(t) + 1, Len(s)) = t

\* "{module}.{name}".format(module=m, name=n)
FlatName(m, n) == m \o <<".">> \o n

(***************************************************************************)
(* The heap.                                                               *)
(*                                                                         *)
(* An object is a record; which fields matter depends on its kind:         *)
(*   "misc"   any other value (a list, say); val is its content            *)
(*   "func"   a function: name (func_name), code (the global names its     *)
(*            body reads), globs (func_globals, a dictionary), defs        *)
(*            (func_defaults), attrs (its __dict__)                        *)
(*   "class"  a class: name (__name__), mock (it derives from Mock),       *)
(*            attrs (its __dict__)                                         *)
(*   "type"   a built-in type, as returned by type(x)                      *)
(*   "mock"   an instance of Mock or MockCallable; attrs is its __dict__   *)
(*   "inst"   an instance of a class of the module: cls (its class),       *)
(*            attrs (its __dict__)                                         *)
(*   "prop"   a property: fn, fset, fdel are fget, fset, fdel              *)
(*   "cm"     a classmethod object wrapping fn                             *)
(*   "sm"     a staticmethod object wrapping fn                            *)
(*   "meth"   an instancemethod: fn (im_func), self (im_self), cls         *)
(*            (im_class)                                                   *)
(* 0 stands for None / an absent slot.  by is bookkeeping, not program     *)
(* state: the apply_mocks invocation that created the object (0: the host  *)
(* program).                                                               *)
(***************************************************************************)
NoItems == [k \in {} |-> 0]

Blank == [kind |-> "misc", name |-> <<>>, val |-> 0, mock |-> FALSE,
          attrs |-> NoItems, code |-> {}, globs |-> 0, defs |-> 0,
          fn |-> 0, fset |-> 0, fdel |-> 0, self |-> 0, cls |-> 0, by |-> 0]

MkMisc(v)         == [Blank EXCEPT !.val = v]
MkType(n)         == [Blank EXCEPT !.kind = "type", !.name = n]
MkClass(n, m, as) == [Blank EXCEPT !.kind = "class", !.name = n, !.mock = m, !.attrs = as]
MkFunc(n, c, g, d) == [Blank EXCEPT !.kind = "func", !.name = n, !.code = c, !.globs = g, !.defs = d]
MkWrap(k, f)      == [Blank EXCEPT !.kind = k, !.fn = f]
MkProp(g, s, d)   == [Blank EXCEPT !.kind = "prop", !.fn = g, !.fset = s, !.fdel = d]
MkMeth(f, s, c)   == [Blank EXCEPT !.kind = "meth", !.fn = f, !.self = s, !.cls = c]
MkInst(c)         == [Blank EXCEPT !.kind = "inst", !.cls = c]

\* Mock(): class Mock(object) has no state of its own
Mock == [Blank EXCEPT !.kind = "mock"]

\* MockCallable(cal)
MockCallable(cal) == [Mock EXCEPT !.fn = cal]

(***************************************************************************)
(* The objects that exist before any mock is applied: the built-in types,  *)
(* the module under test "m", and the replacement values of the mock       *)
(* tables.  Module m reads                                                 *)
(*     X = 10; g = 20                                                      *)
(*     class H(object): x = 3                                              *)
(*     class C(object):                                                    *)
(*         a = 1; b = H                                                    *)
(*         def im(self): g, H                                              *)
(*         @classmethod  def cm(cls): g, H                                 *)
(*         @staticmethod def sm(): g, H                                    *)
(*         @property     def p(self): g, H                                 *)
(*     def f(d=0): X, g, H                                                 *)
(*     class K(Mock): a = 1                                                *)
(* and the replacement values are 2, 5, 7, 17, class FakeH(Mock), Mock()   *)
(* and MockCallable(f); C.im (an unbound method) and C.cm (a method bound  *)
(* to C) are what the doctests of copy_callable pass it, c.im is a method  *)
(* bound to the instance c = C().  Three more classes, bound to no name    *)
(* of module m, hold themselves or each other as attributes:               *)
(*     class S(object): pass                                               *)
(*     S.s = S                                                             *)
(*     class P(object): pass                                               *)
(*     class Q(object): p = P                                              *)
(*     P.q = Q                                                             *)
(* The classes and the mock entries are                                    *)
(* after the pattern of test_class / empty_test_class in                   *)
(* tests/test_mockable.py.                                                 *)
(***************************************************************************)
Labels == <<"list", "function", "instancemethod", "property", "classmethod",
            "staticmethod", "type", "Mock",
            "X", "g", "H.x", "H", "C.a", "C.im", "C.cm.f", "C.cm", "C.sm.f",
            "C.sm", "C.p.f", "C.p", "C", "f.d", "f", "K.a", "K",
            "v2", "v5", "v7", "v17", "FakeH", "mock", "mc",
            "C.im.m", "C.cm.m", "c", "c.im", "S", "P", "Q">>

Id(l) == CHOOSE i \in DOMAIN Labels : Labels[i] = l

\* Names of module m, of C's and H's attributes, and of the mocked paths
nX  == <<"X">>
ng_ == <<"g">>
nH  == <<"H">>
nC  == <<"C">>
nK  == <<"K">>
nf  == <<"f">>
na  == <<"a">>
nb  == <<"b">>
nx  == <<"x">>
nim == <<"i", "m">>
ncm == <<"c", "m">>
nsm == <<"s", "m">>
np  == <<"p">>
nF  == <<"F">>
nS  == <<"S">>
ns_ == <<"s">>
nP  == <<"P">>
nQ  == <<"Q">>
nCa   == <<"C", ".", "a">>
nCb   == <<"C", ".", "b">>
nCbx  == <<"C", ".", "b", ".", "x">>
nCaz  == <<"C", ".", "a", ".", "z">>
nKa   == <<"K", ".", "a">>
nZq   == <<"Z", ".", "q">>
nXy   == <<"X", ".", "y">>
nm    == <<"m">>
nq    == <<"q">>

\* The globals of module m: the namespace doctest hands to get_doctest
ModuleNames ==
    (nX :> Id("X")) @@ (ng_ :> Id("g")) @@ (nH :> Id("H")) @@
    (nC :> Id("C")) @@ (nf :> Id("f")) @@ (nK :> Id("K"))

InitDicts == << [map |-> ModuleNames, by |-> 0] >>

ModuleDict == CHOOSE d \in DOMAIN InitDicts : InitDicts[d].map = ModuleNames

MethodCode == {ng_, nH}

InitObj(l) ==
    CASE l = "list"           -> MkType(<<"l">>)
      [] l = "function"       -> MkType(<<"f">>)
      [] l = "instancemethod" -> MkType(<<"i">>)
      [] l = "property"       -> MkType(<<"p">>)
      [] l = "classmethod"    -> MkType(<<"c">>)
      [] l = "staticmethod"   -> MkType(<<"s">>)
      [] l = "type"           -> MkType(<<"t">>)
      [] l = "Mock"           -> MkClass(<<"M">>, TRUE, NoItems)
      [] l = "X"              -> MkMisc(10)
      [] l = "g"              -> MkMisc(20)
      [] l = "H.x"            -> MkMisc(3)
      [] l = "H"              -> MkClass(nH, FALSE, nx :> Id("H.x"))
      [] l = "C.a"            -> MkMisc(1)
      [] l = "C.im"           -> MkFunc(nim, MethodCode, ModuleDict, 0)
      [] l = "C.cm.f"         -> MkFunc(ncm, MethodCode, ModuleDict, 0)
      [] l = "C.cm"           -> MkWrap("cm", Id("C.cm.f"))
      [] l = "C.sm.f"         -> MkFunc(nsm, MethodCode, ModuleDict, 0)
      [] l = "C.sm"           -> MkWrap("sm", Id("C.sm.f"))
      [] l = "C.p.f"          -> MkFunc(np, MethodCode, ModuleDict, 0)
      [] l = "C.p"            -> MkProp(Id("C.p.f"), 0, 0)
      [] l = "C"              -> MkClass(nC, FALSE,
                                   (na :> Id("C.a")) @@ (nb :> Id("H")) @@
                                   (nim :> Id("C.im")) @@ (ncm :> Id("C.cm")) @@
                                   (nsm :> Id("C.sm")) @@ (np :> Id("C.p")))
      [] l = "f.d"            -> MkMisc(0)
      [] l = "f"              -> MkFunc(nf, {nX, ng_, nH}, ModuleDict, Id("f.d"))
      [] l = "K.a"            -> MkMisc(1)
      [] l = "K"              -> MkClass(nK, TRUE, na :> Id("K.a"))
      [] l = "v2"             -> MkMisc(2)
      [] l = "v5"             -> MkMisc(5)
      [] l = "v7"             -> MkMisc(7)
      [] l = "v17"            -> MkMisc(17)
      [] l = "FakeH"          -> MkClass(nF, TRUE, NoItems)
      [] l = "mock"           -> Mock
      [] l = "mc"             -> MockCallable(Id("f"))
      [] l = "C.im.m"         -> MkMeth(Id("C.im"), 0, Id("C"))
      [] l = "C.cm.m"         -> MkMeth(Id("C.cm.f"), Id("C"), Id("type"))
      [] l = "c"              -> MkInst(Id("C"))
      [] l = "c.im"           -> MkMeth(Id("C.im"), Id("c"), Id("C"))
      [] l = "S"              -> MkClass(nS, FALSE, ns_ :> Id("S"))
      [] l = "P"              -> MkClass(nP, FALSE, nq :> Id("Q"))
      [] l = "Q"              -> MkClass(nQ, FALSE, np :> Id("P"))

InitHeap == [i \in DOMAIN Labels |-> InitObj(Labels[i])]

\* type(x)
TypeOf(h, o) ==
    CASE h[o].kind = "misc"  -> Id("list")
      [] h[o].kind = "func"  -> Id("function")
      [] h[o].kind = "meth"  -> Id("instancemethod")
      [] h[o].kind = "prop"  -> Id("property")
      [] h[o].kind = "cm"    -> Id("classmethod")
      [] h[o].kind = "sm"    -> Id("staticmethod")
      [] h[o].kind = "mock"  -> Id("Mock")
      [] h[o].kind = "inst"  -> h[o].cls
      [] OTHER               -> Id("type")

\* isinstance(x, (types.ClassType, type))
IsClass(h, o) == h[o].kind \in {"class", "type"}

\* issubclass(x, Mock) if isinstance(x, type) else isinstance(x, Mock)
IsMock(h, o) == IF IsClass(h, o) THEN h[o].mock ELSE h[o].kind = "mock"

(***************************************************************************)
(* The interpreter state threaded through one call: the two heaps, the     *)
(* log of writes to existing objects (bookkeeping), the invocation on      *)
(* whose behalf the call runs, the value returned and the exception        *)
(* raised ("" for none).                                                   *)
(***************************************************************************)
Ok(st) == st.exc = ""

Return(st, o) == [st EXCEPT !.ret = o]

Raise(st, e) == [st EXCEPT !.exc = e, !.ret = 0]

Alloc(st, rec) ==
    [st EXCEPT !.heap = Append(@, [rec EXCEPT !.by = st.cur]),
               !.ret  = Len(st.heap) + 1]

NewDict(st, m) ==
    [st EXCEPT !.dicts = Append(@, [map |-> m, by |-> st.cur]),
               !.ret   = Len(st.dicts) + 1]

\* d[k] = v
SetItem(st, d, k, v) ==
    [st EXCEPT !.dicts[d].map = (k :> v) @@ @,
               !.writes = @ \cup {[inv |-> st.cur, what |-> "dict", id |-> d]}]

\* Objects with a writable __dict__
Settable(h, o) == h[o].kind \in {"class", "func", "mock", "inst"}

\* setattr(o, k, v)
SetAttr(st, o, k, v) ==
    IF Settable(st.heap, o)
    THEN [st EXCEPT !.heap[o].attrs = (k :> v) @@ @,
                    !.writes = @ \cup {[inv |-> st.cur, what |-> "obj", id |-> o]}]
    ELSE Raise(st, "AttributeError")

\* hasattr(o, k), for the attributes the model keeps
HasAttr(h, o, k) ==
    /\ o # 0
    /\ h[o].kind \in {"class", "func", "mock", "inst"}
    /\ k \in DOMAIN h[o].attrs

\* getattr(o, k) where hasattr(o, k): looking a function or a classmethod
\* up on a class makes a new method object, a staticmethod gives its
\* function, everything else is returned as stored.
GetAttr(st, o, k) ==
    LET h == st.heap
        e == h[o].attrs[k]
    IN  IF h[o].kind # "class" THEN Return(st, e)
        ELSE IF h[e].kind = "func" THEN Alloc(st, MkMeth(e, 0, o))
        ELSE IF h[e].kind = "cm"   THEN Alloc(st, MkMeth(h[e].fn, o, Id("type")))
        ELSE IF h[e].kind = "sm"   THEN Return(st, h[e].fn)
        ELSE Return(st, e)

\* isinstance(getattr(clas, name, None), types.FunctionType)
AttrIsFunction(h, clas, name) ==
    /\ HasAttr(h, clas, name)
    /\ h[clas].kind = "class"
    /\ h[h[clas].attrs[name]].kind = "sm"

(***************************************************************************)
(* The object cloner.  Every operator takes the interpreter state st and   *)
(* gives the state after the call, the returned object in ret.             *)
(***************************************************************************)
\* globs = {}; globs.update(f.func_globals); globs.update(new_globals or {})
MergedGlobals(st, f, new_globals) ==
    (IF new_globals = 0 THEN NoItems ELSE st.dicts[new_globals].map)
    @@ (IF st.heap[f].globs = 0 THEN NoItems ELSE st.dicts[st.heap[f].globs].map)

\* types.FunctionType(f.func_code, globs, name=f.func_name,
\* argdefs=f.func_defaults, closure=f.func_closure), st.ret being globs;
\* functools.update_wrapper(g, f) then copies f's __dict__ into g's.
FunctionType(st, f) == Alloc(st, [st.heap[f] EXCEPT !.globs = st.ret])

\* g.func_globals[g.func_name] = g, st.ret being g
RegisterSelf(st) ==
    Return(SetItem(st, st.heap[st.ret].globs, st.heap[st.ret].name, st.ret),
           st.ret)

\* copy_function(f, new_globals): a new function sharing f's code, name,
\* defaults and closure, whose globals are a new dict holding f's globals
\* updated with new_globals, and which is entered in its own globals.
copy_function(st, f, new_globals) ==
    RegisterSelf(FunctionType(NewDict(st, MergedGlobals(st, f, new_globals)), f))

\* classmethod(x) / staticmethod(x), st.ret being x
Wrap(st, kind) == Alloc(st, MkWrap(kind, st.ret))

\* copy_classmethod(original, new_globals)
copy_classmethod(st, original, new_globals) ==
    Wrap(copy_function(st, st.heap[original].fn, new_globals), "cm")

\* copy_staticmethod(original, new_globals)
copy_staticmethod(st, original, new_globals) ==
    Wrap(copy_function(st, original, new_globals), "sm")

\* types.MethodType(x, None, clas), st.ret being x: an unbound method
\* needs a class
MethodType(st, clas) ==
    IF clas = 0 THEN Raise(st, "TypeError")
    ELSE Alloc(st, MkMeth(st.ret, 0, clas))

\* copy_method(meth, clas, new_globals)
copy_method(st, meth, clas, new_globals) ==
    MethodType(copy_function(st, st.heap[meth].fn, new_globals), clas)

\* copy_function(x, new_globals) if x else None
CopyIfSet(st, x, new_globals) ==
    IF x # 0 THEN copy_function(st, x, new_globals) ELSE Return(st, 0)

PropertyOf(st, fget, fset) == Alloc(st, MkProp(fget, fset, st.ret))

CopyFdel(st, prop, fget, new_globals) ==
    PropertyOf(CopyIfSet(st, st.heap[prop].fdel, new_globals), fget, st.ret)

CopyFset(st, prop, new_globals) ==
    CopyFdel(CopyIfSet(st, st.heap[prop].fset, new_globals), prop, st.ret,
             new_globals)

\* copy_property(prop, new_globals)
copy_property(st, prop, new_globals) ==
    CopyFset(CopyIfSet(st, st.heap[prop].fn, new_globals), prop, new_globals)

\* copy.deepcopy(x): classes, types and functions are atomic to deepcopy
\* (returned as they are), a method is rebuilt around a deep copy of its
\* im_self, an instance is rebuilt with a deep copy of its __dict__, and a
\* container is rebuilt.  Descriptor objects (property, classmethod,
\* staticmethod) do not support the copy protocol.
RECURSIVE deepcopy(_, _)
RECURSIVE deepcopy_attrs(_, _, _)

\* x.attrs[k] = st.ret
Rebind(st, x, k) ==
    IF Ok(st) THEN [st EXCEPT !.heap[x].attrs[k] = st.ret] ELSE st

\* The copy x of an instance gets a deep copy of each of its attributes
deepcopy_attrs(st, x, todo) ==
    IF todo = <<>> \/ ~Ok(st) THEN Return(st, x)
    ELSE deepcopy_attrs(
             Rebind(deepcopy(st, st.heap[x].attrs[Head(todo)]), x, Head(todo)),
             x, Tail(todo))

RebuildMethod(st, x) ==
    IF Ok(st) THEN Alloc(st, [st.heap[x] EXCEPT !.self = st.ret]) ELSE st

deepcopy(st, x) ==
    CASE st.heap[x].kind \in {"class", "type", "func"} -> Return(st, x)
      [] st.heap[x].kind = "misc" -> Alloc(st, st.heap[x])
      [] st.heap[x].kind \in {"mock", "inst"} ->
            deepcopy_attrs(Alloc(st, st.heap[x]), Len(st.heap) + 1,
                           Sorted(DOMAIN st.heap[x].attrs))
      [] st.heap[x].kind = "meth" ->
            RebuildMethod(IF st.heap[x].self = 0 THEN Return(st, 0)
                          ELSE deepcopy(st, st.heap[x].self), x)
      [] OTHER -> Raise(st, "TypeError")

\* copy_miscellanious(misc)
copy_miscellanious(st, misc) == deepcopy(st, misc)

\* copy_callable(name, original, new_globals, clas)
copy_callable(st, name, original, new_globals, clas) ==
    IF st.heap[original].kind = "meth"
    THEN IF st.heap[original].self # 0
         THEN copy_classmethod(st, original, new_globals)
         ELSE copy_method(st, original, clas, new_globals)
    ELSE IF st.heap[original].kind = "func"
    THEN IF clas # 0 /\ AttrIsFunction(st.heap, clas, name)
         THEN copy_staticmethod(st, original, new_globals)
         ELSE copy_function(st, original, new_globals)
    ELSE Return(st, original)

\* The exceptions the attribute loop of copy_class swallows
Swallowed == {"AttributeError", "KeyError", "TypeError"}

\* except (AttributeError, KeyError, TypeError): pass
Except(st) == IF st.exc \in Swallowed THEN [st EXCEPT !.exc = ""] ELSE st

\* setattr(o, name, copy_val), st.ret being copy_val
SetCopy(st, o, name) == IF Ok(st) THEN SetAttr(st, o, name, st.ret) ELSE st

RECURSIVE copy_value(_, _, _, _, _, _)
RECURSIVE copy_class(_, _, _, _)
RECURSIVE copy_class_attrs(_, _, _, _, _)

\* copy_value(name, x, new_globals, copy_clas), st.ret being x
CopyGot(st, name, new_globals, copy_clas, depth) ==
    copy_value(st, name, st.ret, new_globals, copy_clas, depth)

\* The body of the loop of copy_class: the attribute is read with
\* getattr, copied with copy_value and set back; an AttributeError,
\* KeyError or TypeError leaves it as it is.
CopyAttr(st, copy_clas, new_globals, name, depth) ==
    Except(SetCopy(CopyGot(GetAttr(st, copy_clas, name), name, new_globals,
                           copy_clas, depth),
                   copy_clas, name))

\* for name in sorted(copy_clas.__dict__)
copy_class_attrs(st, copy_clas, new_globals, names, depth) ==
    IF names = <<>> \/ ~Ok(st) THEN st
    ELSE copy_class_attrs(CopyAttr(st, copy_clas, new_globals, Head(names), depth),
                          copy_clas, new_globals, Tail(names), depth)

\* copy_clas = type(clas.__name__, (Mock,) + clas.__bases__, copy_dict)
TypeWithMock(st, clas) ==
    Alloc(st, [st.heap[clas] EXCEPT !.kind = "class", !.mock = TRUE])

\* new_globals[clas.__name__] = copy_clas, st.ret being copy_clas
EnterClass(st, new_globals) ==
    Return(SetItem(st, new_globals, st.heap[st.ret].name, st.ret), st.ret)

ReturnClass(st, copy_clas) == IF Ok(st) THEN Return(st, copy_clas) ELSE st

\* The loop of copy_class and its return, st.ret being copy_clas
CopyClassBody(st, new_globals, depth) ==
    ReturnClass(copy_class_attrs(st, st.ret, new_globals,
                                 Sorted(DOMAIN st.heap[st.ret].attrs), depth),
                st.ret)

\* copy_class(clas, new_globals): a class deriving from Mock is returned
\* as it is; any other class is rebuilt with Mock as its first base from
\* a copy of its __dict__, entered in new_globals under its __name__, and
\* its attributes are copied one by one.
copy_class(st, clas, new_globals, depth) ==
    IF st.heap[clas].mock THEN Return(st, clas)
    ELSE CopyClassBody(EnterClass(TypeWithMock(st, clas), new_globals),
                       new_globals, depth)

\* As copy_value, but without the first case: a Mock is dispatched on
\* like any other object.
copy_value_unmarked(st, name, original, new_globals, clas, depth) ==
    IF depth = 0 THEN Raise(st, "RuntimeError")
    ELSE IF IsClass(st.heap, original)
         THEN copy_class(st, original, new_globals, depth - 1)
    ELSE IF st.heap[original].kind \in {"func", "meth"}
         THEN copy_callable(st, name, original, new_globals, clas)
    ELSE IF st.heap[original].kind = "prop"
         THEN copy_property(st, original, new_globals)
    ELSE IF new_globals = 0 THEN Raise(st, "TypeError")
    ELSE IF name \notin DOMAIN st.dicts[new_globals].map THEN Raise(st, "KeyError")
    ELSE copy_miscellanious(st, st.dicts[new_globals].map[name])

\* copy_value(name, original, new_globals, clas): the dispatcher.  The
\* last case copies new_globals[name], not original.  depth counts the
\* nested calls the interpreter still allows.
copy_value(st, name, original, new_globals, clas, depth) ==
    IF depth = 0 THEN Raise(st, "RuntimeError")
    ELSE IF IsMock(st.heap, original) THEN Return(st, original)
    ELSE IF IsClass(st.heap, original)
         THEN copy_class(st, original, new_globals, depth - 1)
    ELSE IF st.heap[original].kind \in {"func", "meth"}
         THEN copy_callable(st, name, original, new_globals, clas)
    ELSE IF st.heap[original].kind = "prop"
         THEN copy_property(st, original, new_globals)
    ELSE IF new_globals = 0 THEN Raise(st, "TypeError")
    ELSE IF name \notin DOMAIN st.dicts[new_globals].map THEN Raise(st, "KeyError")
    ELSE copy_miscellanious(st, st.dicts[new_globals].map[name])

(***************************************************************************)
(* The path resolver.                                                      *)
(***************************************************************************)
\* getattr(current_object, part_name, default), st.ret being default
GetAttrOr(st, current_object, part_name) ==
    IF HasAttr(st.heap, current_object, part_name)
    THEN GetAttr(st, current_object, part_name)
    ELSE st

\* new_globals.get(part_path, default), st.ret being default
GetOr(st, new_globals, part_path) ==
    IF part_path \in DOMAIN st.dicts[new_globals].map
    THEN Return(st, st.dicts[new_globals].map[part_path])
    ELSE st

\* next_object_class
ClassOf(h, next_object) ==
    IF IsClass(h, next_object) THEN next_object ELSE TypeOf(h, next_object)

\* copy_value(part_path, next_object, new_globals, next_object_class),
\* st.ret being next_object
CopyNext(st, part_path, new_globals, depth) ==
    copy_value(st, part_path, st.ret, new_globals, ClassOf(st.heap, st.ret), depth)

\* Lines 219-228 for one segment.  Python evaluates Mock() and the getattr
\* before new_globals.get looks at them.
CopySegment(st, part_name, part_path, current_object, new_globals, depth) ==
    CopyNext(GetOr(GetAttrOr(Alloc(st, Mock), current_object, part_name),
                   new_globals, part_path),
             part_path, new_globals, depth)

RECURSIVE copy_name_loop(_, _, _, _, _, _, _)

\* Lines 229-233, st.ret being the copy of the segment
Attach(st, parts, i, copy_object, current_object, new_globals, depth) ==
    IF ~Ok(st) THEN st
    ELSE IF copy_object = 0
    THEN copy_name_loop(st, parts, i + 1, st.ret, st.ret, new_globals, depth)
    ELSE copy_name_loop(SetAttr(st, current_object, parts[i], st.ret),
                        parts, i + 1, copy_object, st.ret, new_globals, depth)

\* The while loop of copy_name from segment i on; copy_object and
\* current_object are 0 for None.
copy_name_loop(st, parts, i, copy_object, current_object, new_globals, depth) ==
    IF i > Len(parts) THEN Return(st, copy_object)
    ELSE Attach(CopySegment(st, parts[i], JoinPrefix(parts, i), current_object,
                            new_globals, depth),
                parts, i, copy_object, current_object, new_globals, depth)

\* copy_name(thing, new_globals)
copy_name(st, thing, new_globals) ==
    copy_name_loop(st, Split(thing), 1, 0, 0, new_globals, MaxDepth)

(***************************************************************************)
(* The mock applier.                                                       *)
(***************************************************************************)
\* The mock entries tried: local (possibly dotted) name |-> replacement
Entries ==
    { nX :> Id("v7"),
      (nCa :> Id("v2")) @@ (ng_ :> Id("v17")),
      (nCa :> Id("v2")) @@ (nH :> Id("FakeH")),
      (nCa :> Id("v2")) @@ (nH :> Id("v7")),
      nZq :> Id("v5"),
      nKa :> Id("v2"),
      (nCb :> Id("FakeH")) @@ (nCbx :> Id("v5")),
      nCaz :> Id("v5"),
      nXy :> Id("v5") }

\* MockableDocTestParser(mocks={"m": {"f": entry, "C": entry}})
MockTable(entry) == nm :> ((nf :> entry) @@ (nC :> entry))

\* The names get_doctest is called with
TestNames == {FlatName(nm, nf), FlatName(nm, nC), FlatName(nm, nq)}

\* The apply_mocks invocations in flight
Invs == {1, 2}

VARIABLES
    inv,     \* per invocation: where it stands in apply_mocks, and its locals
    heap,    \* the objects
    dicts,   \* the dictionaries
    writes,  \* which invocation wrote to which existing object or dict
    mocks,   \* self.mocks
    call     \* the direct call of a cloner function, its arguments and outcome

vars == <<inv, heap, dicts, writes, mocks, call>>

\* flatten_mocks(self)
flatten_mocks(table) ==
    LET pairs == UNION {{<<m, n>> : n \in DOMAIN table[m]} : m \in DOMAIN table}
        flat(k) == CHOOSE p \in pairs : FlatName(p[1], p[2]) = k
    IN  [k \in {FlatName(p[1], p[2]) : p \in pairs} |->
            table[flat(k)[1]][flat(k)[2]]]

\* The interpreter state in which invocation i runs its next step
Running(i) == [heap |-> heap, dicts |-> dicts, writes |-> writes,
               cur |-> i, ret |-> 0, exc |-> ""]

\* heap0, dicts0 and globs0 keep the heaps and the input namespace as they
\* were when the invocation began, heap1 and dicts1 as they were when it
\* returned (bookkeeping).
Idle == [pc |-> "idle", name |-> <<>>, globs |-> 0, after |-> 0,
         new_globals |-> 0, todo |-> <<>>, seen |-> {}, result |-> 0,
         exc |-> "", heap0 |-> <<>>, dicts0 |-> <<>>, globs0 |-> NoItems,
         heap1 |-> <<>>, dicts1 |-> <<>>]

NoCall == [pc |-> "idle", fn |-> "", name |-> <<>>, original |-> 0,
           new_globals |-> 0, clas |-> 0, ret |-> 0, exc |-> "",
           dicts0 |-> <<>>]

\* The heaps after a step that ended in state st
Commit(st) ==
    /\ heap' = st.heap
    /\ dicts' = st.dicts
    /\ writes' = st.writes
    /\ UNCHANGED mocks

\* As new_namespace, but without the test "if name in mocks": the
\* namespace is copied whether or not the name is mocked.
new_namespace_copied(st, flat, name, globs) ==
    NewDict(st, (IF name \in DOMAIN flat THEN flat[name] ELSE NoItems)
                @@ st.dicts[globs].map)

\* apply_mocks, lines 389-393 and 407: the namespace it goes on with is a
\* new dict holding globs updated with mocks[name] when name is mocked,
\* and globs itself when it is not.
new_namespace(st, flat, name, globs) ==
    IF name \in DOMAIN flat
    THEN NewDict(st, flat[name] @@ st.dicts[globs].map)
    ELSE Return(st, globs)

\* Invocation i has entered apply_mocks(name, globs) and stands before
\* the first loop, or has returned globs; st.ret is the namespace.
Entered(i, name, globs, after, flat, st) ==
    /\ Commit(st)
    /\ UNCHANGED call
    /\ inv' = [inv EXCEPT ![i] =
          [pc |-> IF name \in DOMAIN flat THEN "mocking" ELSE "done",
           name |-> name, globs |-> globs, after |-> after,
           new_globals |-> IF name \in DOMAIN flat THEN st.ret ELSE 0,
           todo |-> IF name \in DOMAIN flat THEN Sorted(DOMAIN flat[name]) ELSE <<>>,
           seen |-> {},
           result |-> IF name \in DOMAIN flat THEN 0 ELSE st.ret,
           exc |-> "",
           heap0 |-> heap, dicts0 |-> dicts, globs0 |-> st.dicts[globs].map,
           heap1 |-> IF name \in DOMAIN flat THEN <<>> ELSE st.heap,
           dicts1 |-> IF name \in DOMAIN flat THEN <<>> ELSE st.dicts]]

Enter(i, name, globs, after, flat, st) ==
    Entered(i, name, globs, after, flat, new_namespace(st, flat, name, globs))

\* apply_mocks(name, globs) on the globals of the module: the first call
\* of get_doctest
ApplyMocks(i, name) ==
    /\ inv[i].pc = "idle"
    /\ Enter(i, name, ModuleDict, 0, flatten_mocks(mocks), Running(i))

\* DocTest.__init__ keeps globs.copy() as dt.globs
DocTestGlobs(i, applied) ==
    [NewDict([Running(i) EXCEPT !.cur = 0], dicts[applied].map) EXCEPT !.cur = i]

Reenter(i, j, dt) ==
    Enter(i, inv[j].name, dt.ret, j, flatten_mocks(mocks), dt)

\* The rest of get_doctest, after invocation j has returned the namespace
\* the DocTest is built with: apply_mocks(name, dt.globs)
GetDoctestReapply(i, j) ==
    /\ i # j
    /\ inv[i].pc = "idle"
    /\ inv[j].pc = "done"
    /\ inv[j].after = 0
    /\ Reenter(i, j, DocTestGlobs(i, inv[j].result))

\* new_globals[mock_name.split(".")[0]] = st.ret
BindFirst(st, new_globals, mock_name) ==
    IF Ok(st) THEN SetItem(st, new_globals, Split(mock_name)[1], st.ret) ELSE st

\* The invocation after a step of a loop that ended in state st
Stepped(i, st, todo, seen) ==
    /\ Commit(st)
    /\ UNCHANGED call
    /\ inv' = [inv EXCEPT ![i].todo = todo,
                          ![i].seen = seen,
                          ![i].exc = st.exc,
                          ![i].pc = IF Ok(st) THEN "mocking" ELSE "raised"]

\* One iteration of "for mock_name in sorted(mocks[name])"
MockGlobals(i) ==
    /\ inv[i].pc = "mocking"
    /\ inv[i].todo # <<>>
    /\ Stepped(i, BindFirst(copy_name(Running(i), Head(inv[i].todo),
                                      inv[i].new_globals),
                            inv[i].new_globals, Head(inv[i].todo)),
               Tail(inv[i].todo), inv[i].seen)

\* The keys "for real_name in new_globals" has yet to visit for which
\* name.endswith(real_name)
Matching(i) ==
    IF inv[i].pc # "mocking" THEN {}
    ELSE {k \in DOMAIN dicts[inv[i].new_globals].map \ inv[i].seen :
             EndsWith(inv[i].name, k)}

\* new_globals[real_name] = st.ret
BindCallable(st, new_globals, real_name) ==
    IF Ok(st) THEN SetItem(st, new_globals, real_name, st.ret) ELSE st

\* copy_callable(real_name, new_globals[real_name], new_globals,
\*               clas=type(new_globals[real_name]))
CopyUnderTest(st, new_globals, real_name) ==
    copy_callable(st, real_name, st.dicts[new_globals].map[real_name],
                  new_globals,
                  TypeOf(st.heap, st.dicts[new_globals].map[real_name]))

\* One matching iteration of "for real_name in new_globals"; a dict
\* yields its keys in no order the program controls.
MockUnderTest(i, real_name) ==
    /\ inv[i].pc = "mocking"
    /\ inv[i].todo = <<>>
    /\ real_name \in Matching(i)
    /\ Stepped(i, BindCallable(CopyUnderTest(Running(i), inv[i].new_globals,
                                             real_name),
                               inv[i].new_globals, real_name),
               inv[i].todo, inv[i].seen \cup {real_name})

\* "globs = new_globals; return globs"
ReturnGlobs(i) ==
    /\ inv[i].pc = "mocking"
    /\ inv[i].todo = <<>>
    /\ Matching(i) = {}
    /\ inv' = [inv EXCEPT ![i].pc = "done", ![i].result = inv[i].new_globals,
                          ![i].heap1 = heap, ![i].dicts1 = dicts]
    /\ UNCHANGED <<heap, dicts, writes, mocks, call>>

Init ==
    /\ heap = InitHeap
    /\ dicts = InitDicts
    /\ writes = {}
    /\ mocks \in {MockTable(e) : e \in Entries}
    /\ inv = [i \in Invs |-> Idle]
    /\ call = NoCall

Next ==
    \/ \E i \in Invs, name \in TestNames : ApplyMocks(i, name)
    \/ \E i \in Invs, j \in Invs : GetDoctestReapply(i, j)
    \/ \E i \in Invs : MockGlobals(i)
    \/ \E i \in Invs : \E k \in Matching(i) : MockUnderTest(i, k)
    \/ \E i \in Invs : ReturnGlobs(i)

Spec == Init /\ [][Next]_vars

(***************************************************************************)
(* The cloner and the path resolver called directly, as the doctests of    *)
(* mockable.py call them: on any object, under any name, with a namespace  *)
(* new_globals of the caller.                                              *)
(***************************************************************************)
\* The namespaces passed as new_globals: none of the module's names, the
\* module's names, and the module's names overlaid with a mock entry
Namespaces == {NoItems, ModuleNames} \cup {e @@ ModuleNames : e \in Entries}

\* The names and dotted names passed
CallNames == {nX, na, nC, nCa, nCbx, nCaz, nKa, nZq, nXy}

\* The classes passed as clas: None, class C, the built-in list
CallClasses == {0, Id("C"), Id("list")}

\* The objects passed: any but the built-in types
CallObjects == {o \in DOMAIN InitHeap : InitHeap[o].kind # "type"}

\* The namespace of the caller
CallGlobals == Len(InitDicts) + 1

Called(fn, name, original, clas, st) ==
    /\ Commit(st)
    /\ UNCHANGED inv
    /\ call' = [pc |-> "returned", fn |-> fn, name |-> name,
                original |-> original, new_globals |-> CallGlobals,
                clas |-> clas, ret |-> st.ret, exc |-> st.exc,
                dicts0 |-> dicts]

CallCopyValue(name, original, clas) ==
    /\ call.pc = "idle"
    /\ Called("copy_value", name, original, clas,
              copy_value(Running(0), name, original, CallGlobals, clas, MaxDepth))

CallCopyClass(clas) ==
    /\ call.pc = "idle"
    /\ heap[clas].kind = "class"
    /\ Called("copy_class", <<>>, clas, 0,
              copy_class(Running(0), clas, CallGlobals, MaxDepth))

CallCopyName(thing) ==
    /\ call.pc = "idle"
    /\ Called("copy_name", thing, 0, 0, copy_name(Running(0), thing, CallGlobals))

\* The names copy_callable is passed: those of C's methods and of f
CallableNames == {nim, ncm, nsm, nf}

CallCopyCallable(name, original, clas) ==
    /\ call.pc = "idle"
    /\ Called("copy_callable", name, original, clas,
              copy_callable(Running(0), name, original, CallGlobals, clas))

InitCloner ==
    /\ heap = InitHeap
    /\ dicts \in {Append(InitDicts, [map |-> m, by |-> 0]) : m \in Namespaces}
    /\ writes = {}
    /\ mocks = NoItems
    /\ inv = [i \in Invs |-> Idle]
    /\ call = NoCall

NextCloner ==
    \/ \E name \in CallNames, original \in CallObjects, clas \in CallClasses :
          CallCopyValue(name, original, clas)
    \/ \E clas \in CallObjects : CallCopyClass(clas)
    \/ \E thing \in CallNames : CallCopyName(thing)
    \/ \E name \in CallableNames, original \in CallObjects, clas \in CallClasses :
          CallCopyCallable(name, original, clas)

SpecCloner == InitCloner /\ [][NextCloner]_vars

(***************************************************************************)
(* What can be observed of an object: its kind, name and content, and, to  *)
(* depth n, what its attributes hold, what the global names its code       *)
(* reads resolve to, and what it wraps.  Identities do not show.           *)
(***************************************************************************)
NoObs(k) == [kind |-> k, name |-> <<>>, val |-> 0, mock |-> FALSE,
             attrs |-> NoItems, reads |-> NoItems, wraps |-> NoItems]

RECURSIVE Obs(_, _, _, _)
Obs(h, d, o, n) ==
    IF o = 0 THEN NoObs("None")
    ELSE IF n = 0 THEN NoObs("...")
    ELSE [kind |-> h[o].kind, name |-> h[o].name, val |-> h[o].val,
          mock |-> h[o].mock,
          attrs |-> [a \in DOMAIN h[o].attrs |-> Obs(h, d, h[o].attrs[a], n - 1)],
          reads |-> IF h[o].kind # "func" \/ h[o].globs = 0 THEN NoItems
                    ELSE [x \in h[o].code \cap DOMAIN d[h[o].globs].map |->
                            Obs(h, d, d[h[o].globs].map[x], n - 1)],
          wraps |-> [s \in {"fn", "fset", "fdel", "self"} |->
                       Obs(h, d, CASE s = "fn" -> h[o].fn [] s = "fset" -> h[o].fset
                                   [] s = "fdel" -> h[o].fdel [] OTHER -> h[o].self,
                           n - 1)]]

\* What name x resolves to when function fn of heap h runs
Resolves(h, d, fn, x) == d[h[fn].globs].map[x]

Done(i) == inv[i].pc = "done"

Flat == flatten_mocks(mocks)

\* Invocation i was given a name the mock table has
Mocked(i) == inv[i].pc # "idle" /\ inv[i].name \in DOMAIN Flat

\* The mock entry invocation i applies
Entry(i) == Flat[inv[i].name]

\* The namespace invocation i returned, as it was when it returned
Result(i) == inv[i].dicts1[inv[i].result].map

\* The objects a namespace binds
Values(m) == {m[k] : k \in DOMAIN m}

\* The first segments of the dotted names of a mock entry, and its names
\* without a dot
FirstSegments(e) == {Split(n)[1] : n \in DOMAIN e}

PlainNames(e) == {n \in DOMAIN e : Len(Split(n)) = 1}

\* The objects invocation i was handed: those its input namespace binds
\* and the attributes of the classes among them
Originals(i) ==
    Values(inv[i].globs0)
    \cup UNION {Values(inv[i].heap0[o].attrs) : o \in Values(inv[i].globs0)}

\* The functions behind a class attribute: the function itself, the one a
\* classmethod or staticmethod wraps, the accessors of a property
Accessors(h, e) ==
    CASE h[e].kind = "func"         -> {e}
      [] h[e].kind \in {"cm", "sm"} -> {h[e].fn}
      [] h[e].kind = "prop"         -> {h[e].fn, h[e].fset, h[e].fdel} \ {0}
      [] OTHER                      -> {}

\* What function fn sees when it reads the global name x
Sees(h, d, fn, x) == Obs(h, d, Resolves(h, d, fn, x), ObsDepth)

(***************************************************************************)
(* C1 Frame: apply_mocks never mutates the input namespace or the original *)
(* objects it clones from.  When it has returned, the input mapping has    *)
(* the keys it had, bound to the objects they were bound to, every class   *)
(* reachable from it has the attribute values it had and every function    *)
(* the globals and defaults it had.                                        *)
(***************************************************************************)
C1_NeverMutatesOriginals ==
    \A i \in Invs :
        Done(i) =>
            /\ inv[i].dicts1[inv[i].globs].map = inv[i].globs0
            /\ \A o \in Originals(i) :
                  /\ inv[i].heap1[o] = inv[i].heap0[o]
                  /\ (inv[i].heap0[o].kind = "func" /\ inv[i].heap0[o].globs # 0) =>
                        inv[i].dicts1[inv[i].heap0[o].globs].map
                          = inv[i].dicts0[inv[i].heap0[o].globs].map

(***************************************************************************)
(* C2 Identity isolation: every key of the input namespace that is neither *)
(* the first segment of a mocked dotted name of the target, nor overlaid   *)
(* by the target's mock entry, nor matched as the callable under test, is  *)
(* bound in the returned namespace to the very object the input namespace  *)
(* binds it to.                                                            *)
(***************************************************************************)
C2_IdentityIsolation ==
    \A i \in Invs :
        (Done(i) /\ Mocked(i)) =>
            \A k \in DOMAIN inv[i].globs0 :
                (/\ k \notin FirstSegments(Entry(i))
                 /\ k \notin DOMAIN Entry(i)
                 /\ ~EndsWith(inv[i].name, k)) =>
                    /\ k \in DOMAIN Result(i)
                    /\ Result(i)[k] = inv[i].globs0[k]

(***************************************************************************)
(* C3 Mocked free-variable substitution: for a function f of the input     *)
(* namespace that is the callable under test and reads a global name X     *)
(* that the mock entry replaces with v, the function the returned          *)
(* namespace binds to f's key sees v when it reads X, and the original f   *)
(* goes on seeing what it saw.                                             *)
(***************************************************************************)
C3_FreeVariableSubstitution ==
    \A i \in Invs :
        (Done(i) /\ Mocked(i)) =>
            \A k \in DOMAIN inv[i].globs0 :
                (/\ inv[i].heap0[inv[i].globs0[k]].kind = "func"
                 /\ EndsWith(inv[i].name, k)) =>
                    \A X \in inv[i].heap0[inv[i].globs0[k]].code \cap PlainNames(Entry(i)) :
                        /\ inv[i].heap1[Result(i)[k]].kind = "func"
                        /\ Sees(inv[i].heap1, inv[i].dicts1, Result(i)[k], X)
                             = Obs(inv[i].heap0, inv[i].dicts0, Entry(i)[X], ObsDepth)
                        /\ Sees(inv[i].heap1, inv[i].dicts1, inv[i].globs0[k], X)
                             = Sees(inv[i].heap0, inv[i].dicts0, inv[i].globs0[k], X)

(***************************************************************************)
(* C4 Class attribute substitution: when the input namespace binds C to a  *)
(* class, C is under test, and its mock entry holds "C.a" with replacement *)
(* v and a global name g with replacement w, the returned namespace binds  *)
(* C to another class object whose attribute a equals v and whose instance *)
(* methods, class methods, static methods and property accessors all see   *)
(* w when they read g; the original class keeps its attribute a and its    *)
(* methods go on seeing the original g.                                    *)
(***************************************************************************)
C4_ClassAttributeSubstitution ==
    \A i \in Invs :
        (Done(i) /\ Mocked(i) /\ inv[i].after = 0) =>
            \A p \in DOMAIN Entry(i) :
                (/\ Len(Split(p)) = 2
                 /\ EndsWith(inv[i].name, Split(p)[1])
                 /\ Split(p)[1] \in DOMAIN inv[i].globs0
                 /\ IsClass(inv[i].heap0, inv[i].globs0[Split(p)[1]])
                 /\ ~IsMock(inv[i].heap0, inv[i].globs0[Split(p)[1]])) =>
                    LET C  == inv[i].globs0[Split(p)[1]]
                        CC == Result(i)[Split(p)[1]]
                        a  == Split(p)[2]
                    IN  /\ CC # C
                        /\ IsClass(inv[i].heap1, CC)
                        /\ a \in DOMAIN inv[i].heap1[CC].attrs
                        /\ Obs(inv[i].heap1, inv[i].dicts1, inv[i].heap1[CC].attrs[a], ObsDepth)
                             = Obs(inv[i].heap0, inv[i].dicts0, Entry(i)[p], ObsDepth)
                        /\ inv[i].heap1[C] = inv[i].heap0[C]
                        /\ \A g \in PlainNames(Entry(i)) :
                              /\ \A n \in DOMAIN inv[i].heap1[CC].attrs :
                                    \A fn \in Accessors(inv[i].heap1, inv[i].heap1[CC].attrs[n]) :
                                        g \in inv[i].heap1[fn].code =>
                                            Sees(inv[i].heap1, inv[i].dicts1, fn, g)
                                              = Obs(inv[i].heap0, inv[i].dicts0, Entry(i)[g], ObsDepth)
                              /\ \A n \in DOMAIN inv[i].heap0[C].attrs :
                                    \A fn \in Accessors(inv[i].heap0, inv[i].heap0[C].attrs[n]) :
                                        g \in inv[i].heap0[fn].code =>
                                            Sees(inv[i].heap1, inv[i].dicts1, fn, g)
                                              = Sees(inv[i].heap0, inv[i].dicts0, fn, g)

(***************************************************************************)
(* C5 Idempotent re-application: the namespace apply_mocks returns when    *)
(* get_doctest applies it a second time, to the namespace the first        *)
(* application returned, is behaviourally the namespace the first          *)
(* application returned: the same keys, each bound to an object with the   *)
(* same content, the same attribute values and, for a callable, the same   *)
(* values seen for the global names it reads.                              *)
(***************************************************************************)
C5_IdempotentReapplication ==
    \A i \in Invs, j \in Invs :
        (Done(i) /\ Done(j) /\ inv[i].after = j) =>
            /\ DOMAIN Result(i) = DOMAIN Result(j)
            /\ \A k \in DOMAIN Result(j) :
                  Obs(inv[i].heap1, inv[i].dicts1, Result(i)[k], ObsDepth)
                    = Obs(inv[j].heap1, inv[j].dicts1, Result(j)[k], ObsDepth)

(***************************************************************************)
(* C6 Cross-test isolation: of two invocations of apply_mocks on the same  *)
(* original namespace with the same mock table, interleaved in any order,  *)
(* every object and dictionary an invocation writes to (an attribute set   *)
(* in copy_name or copy_class, a key set in a namespace) was created by    *)
(* that same invocation.                                                   *)
(***************************************************************************)
C6_WritesOnlyItsOwn ==
    \A w \in writes :
        (w.inv \in Invs /\ inv[w.inv].after = 0) =>
            IF w.what = "obj" THEN heap[w.id].by = w.inv
                              ELSE dicts[w.id].by = w.inv

(***************************************************************************)
(* C7 No-op fast path: when name is not a key of the flattened mock table, *)
(* apply_mocks returns the input namespace object itself, with no key      *)
(* added, removed or rebound and no object or dictionary created.          *)
(***************************************************************************)
C7_FastPath ==
    \A i \in Invs :
        (inv[i].pc # "idle" /\ ~Mocked(i)) =>
            /\ Done(i)
            /\ inv[i].result = inv[i].globs
            /\ Result(i) = inv[i].globs0
            /\ inv[i].heap1 = inv[i].heap0
            /\ Len(inv[i].dicts1) = Len(inv[i].dicts0) + (IF inv[i].after = 0 THEN 0 ELSE 1)
            /\ \A k \in DOMAIN inv[i].dicts0 : inv[i].dicts1[k] = inv[i].dicts0[k]

\* An unmocked name was applied to the module's globals and returned them
C7_Witness ==
    \E i \in Invs :
        /\ Done(i) /\ ~Mocked(i) /\ inv[i].after = 0
        /\ inv[i].result = ModuleDict
        /\ DOMAIN Flat # {}

(***************************************************************************)
(* C8 Sentinel pass-through: for every instance of Mock (MockCallable      *)
(* included) and every class deriving from Mock, under every name,         *)
(* namespace and class context, copy_value returns that very object and    *)
(* copy_class returns the input class itself, and nothing is created or    *)
(* changed.                                                                *)
(***************************************************************************)
C8_SentinelPassThrough ==
    (/\ call.pc = "returned"
     /\ call.fn \in {"copy_value", "copy_class"}
     /\ IsMock(InitHeap, call.original)) =>
        /\ call.exc = ""
        /\ call.ret = call.original
        /\ heap = InitHeap
        /\ dicts = call.dicts0

\* copy_value was given a MockCallable under a name the namespace binds to
\* something else
C8_Witness ==
    /\ call.pc = "returned"
    /\ call.fn = "copy_value"
    /\ call.original = Id("mc")
    /\ call.name \in DOMAIN dicts[call.new_globals].map
    /\ call.ret = Id("mc")

(***************************************************************************)
(* C9 The path resolver copy_name never raises, for any dotted name and    *)
(* any namespace: a segment that resolves neither in the namespace nor on  *)
(* the cursor becomes a fresh Mock, and every segment that resolves is     *)
(* cloned and attached without an error reaching the caller.               *)
(***************************************************************************)
C9_CopyNameNeverRaises ==
    (call.pc = "returned" /\ call.fn = "copy_name") => call.exc = ""

(***************************************************************************)
(* C10 Opaque-value case: for every object given to copy_value that is     *)
(* not a Mock, a class, a function, a method or a property, copy_value     *)
(* returns a deep copy of that object (equal to it, distinct from it),     *)
(* whatever the namespace binds under the given name.                      *)
(***************************************************************************)
C10_CopiesTheOriginal ==
    (/\ call.pc = "returned"
     /\ call.fn = "copy_value"
     /\ InitHeap[call.original].kind = "misc") =>
        /\ call.exc = ""
        /\ call.ret # call.original
        /\ call.ret \notin DOMAIN InitHeap
        /\ Obs(heap, dicts, call.ret, ObsDepth)
             = Obs(InitHeap, call.dicts0, call.original, ObsDepth)

(***************************************************************************)
(* C11 Clone-callable sub-dispatch: copy_callable hands a bound method     *)
(* whose im_self is a class to copy_classmethod (the result is a           *)
(* classmethod), a bound method whose im_self is an instance to            *)
(* copy_method (the result is a plain instance method of the given class,  *)
(* or the TypeError of types.MethodType when no class is given), a         *)
(* function that getattr(clas, name) yields as a plain function to         *)
(* copy_staticmethod (the result is a staticmethod), and any other         *)
(* function to copy_function (the result is a function); each time the     *)
(* function inside is a new function with the code of the original.        *)
(***************************************************************************)
C11_SubDispatch ==
    (/\ call.pc = "returned"
     /\ call.fn = "copy_callable"
     /\ InitHeap[call.original].kind \in {"meth", "func"}
     /\ ~(InitHeap[call.original].kind = "meth" /\ InitHeap[call.original].self = 0)) =>
        LET o == InitHeap[call.original]
            r == heap[call.ret]
        IN  IF o.kind = "meth" /\ IsClass(InitHeap, o.self)
            THEN /\ call.exc = ""
                 /\ r.kind = "cm"
                 /\ r.fn \notin DOMAIN InitHeap
                 /\ heap[r.fn].code = InitHeap[o.fn].code
            ELSE IF o.kind = "meth"
            THEN \/ call.clas = 0 /\ call.exc = "TypeError"
                 \/ /\ call.clas # 0
                    /\ call.exc = ""
                    /\ r.kind = "meth"
                    /\ r.self = 0
                    /\ r.cls = call.clas
                    /\ r.fn \notin DOMAIN InitHeap
                    /\ heap[r.fn].code = InitHeap[o.fn].code
            ELSE IF call.clas # 0 /\ AttrIsFunction(InitHeap, call.clas, call.name)
            THEN /\ call.exc = ""
                 /\ r.kind = "sm"
                 /\ r.fn \notin DOMAIN InitHeap
                 /\ heap[r.fn].code = o.code
            ELSE /\ call.exc = ""
                 /\ r.kind = "func"
                 /\ call.ret \notin DOMAIN InitHeap
                 /\ r.code = o.code

(***************************************************************************)
(* C12 Cloning terminates on self-referential structures: copy_class, and  *)
(* copy_value given a class, on a class that does not derive from Mock,    *)
(* also one that holds itself as an attribute or one of two that hold      *)
(* each other, returns a new class and does not run into the recursion     *)
(* limit of the interpreter.                                               *)
(***************************************************************************)
C12_CloningTerminates ==
    (/\ call.pc = "returned"
     /\ call.fn \in {"copy_class", "copy_value"}
     /\ InitHeap[call.original].kind = "class"
     /\ ~InitHeap[call.original].mock) =>
        /\ call.exc # "RuntimeError"
        /\ call.exc = ""
        /\ call.ret \notin DOMAIN InitHeap
        /\ heap[call.ret].kind = "class"

=============================================================================
